---------------------------- MODULE Spec2Model ----------------------------
(***************************************************************************)
(* A model of pycarbon/integration/tensorflow.py (class TensorFlow): the   *)
(* numpy -> tensorflow type table, the per-row field sanitizer, the ngram  *)
(* flatten / unflatten pair, static shape assignment, the shuffling queue  *)
(* with its queue runner, and the two bridges make_tensor / make_dataset.  *)
(*                                                                         *)
(* Four specifications share the module:                                   *)
(*   SpecSanitize  one call of dequeue_sample_impl on a drawn row          *)
(*   SpecNgram     the ngram pipeline on a drawn descriptor and mapping    *)
(*   SpecTypes     graph construction over every field type                *)
(*   Spec          graph construction and execution against one reader     *)
(***************************************************************************)
EXTENDS Integers, Sequences, FiniteSets, TLC

VARIABLES
  \* --- SpecSanitize: one reader row through _sanitize_field_tf_types
  sample,        \* the row next(reader) is about to return
  spulls,        \* number of next(reader) calls made so far
  sresult,       \* the last dequeue_sample_impl call: the row pulled, the outcome
  \* --- SpecNgram: the ngram pipeline
  data,          \* the timestep -> row mapping next(reader) returns
  flat,          \* what dequeue_sample_impl returned (a flattened row)
  ngdtypes,      \* what _schema_to_tf_dtypes_ngram returned
  unflat,        \* what make_namedtuple_tf_ngram returned
  \* --- Spec: the bridges
  reader,        \* the reader's configuration: schema, ngram, batched_output
  rstate,        \* the reader's iteration state
  graph,         \* what the calls created in the TF graph
  runners,       \* the registered queue runners (one thread per enqueue op)
  gens,          \* generator instances of make_dataset's dequeue_sample_impl
  lastCall       \* the last make_tensor / make_dataset call and its outcome

sanVars == <<sample, spulls, sresult>>
ngVars == <<data, flat, ngdtypes, unflat>>
brVars == <<reader, rstate, graph, runners, gens, lastCall>>
vars == <<sample, spulls, sresult, data, flat, ngdtypes, unflat,
          reader, rstate, graph, runners, gens, lastCall>>

(***************************************************************************)
(* Small helpers on sequences and sets.                                    *)
(***************************************************************************)
Range(s) == {s[i] : i \in DOMAIN s}

Min(S) == CHOOSE m \in S : \A o \in S : m <= o

Max(S) == CHOOSE m \in S : \A o \in S : m >= o

\* sorted(S) for a finite set of integers
RECURSIVE sorted(_)
sorted(S) == IF S = {} THEN <<>> ELSE <<Min(S)>> \o sorted(S \ {Min(S)})

\* the subsequence of s whose elements are in S, order kept
RECURSIVE Restrict(_, _)
Restrict(s, S) ==
  IF s = <<>> THEN <<>>
  ELSE (IF Head(s) \in S THEN <<Head(s)>> ELSE <<>>) \o Restrict(Tail(s), S)

RECURSIVE Concat(_)
Concat(ss) == IF ss = <<>> THEN <<>> ELSE Head(ss) \o Concat(Tail(ss))

Reverse(s) == [i \in 1..Len(s) |-> s[Len(s) + 1 - i]]

(***************************************************************************)
(* Type Mapper: _NUMPY_TO_TF_DTYPES_MAPPING and _numpy_to_tf_dtypes.       *)
(* Types are named by the expression the source writes.  np.string_ is     *)
(* numpy's alias of np.bytes_ and np.unicode_ its alias of np.str_; the    *)
(* dict is keyed by the type object, the model by its canonical name.      *)
(***************************************************************************)
Canon(t) ==
  CASE t = "np.string_" -> "np.bytes_"
    [] t = "np.unicode_" -> "np.str_"
    [] OTHER -> t

_NUMPY_TO_TF_DTYPES_MAPPING ==
  [t \in {"np.bool", "np.int8", "np.int16", "np.int32", "np.int64", "np.uint8",
          "np.uint16", "np.float32", "np.float64", "np.bytes_", "np.str_",
          "np.bool_", "Decimal", "np.datetime64"} |->
     CASE t = "np.bool" -> "tf.bool"
       [] t = "np.int8" -> "tf.int8"
       [] t = "np.int16" -> "tf.int16"
       [] t = "np.int32" -> "tf.int32"
       [] t = "np.int64" -> "tf.int64"
       [] t = "np.uint8" -> "tf.uint8"
       [] t = "np.uint16" -> "tf.int32"
       [] t = "np.float32" -> "tf.float32"
       [] t = "np.float64" -> "tf.float64"
       [] t = "np.bytes_" -> "tf.string"
       [] t = "np.str_" -> "tf.string"
       [] t = "np.bool_" -> "tf.bool"
       [] t = "Decimal" -> "tf.string"
       [] t = "np.datetime64" -> "tf.int64"]

\* The result of a call: the value it returns, or the exception it raises.
Returned(v) == [raised |-> "", arg |-> "", value |-> v]

Raised(e, a) == [raised |-> e, arg |-> a, value |-> <<>>]

\* a lookup that falls back to a default instead of raising
_numpy_to_tf_dtypes_fallback(numpy_dtype) ==
  IF Canon(numpy_dtype) \in DOMAIN _NUMPY_TO_TF_DTYPES_MAPPING
  THEN Returned(_NUMPY_TO_TF_DTYPES_MAPPING[Canon(numpy_dtype)])
  ELSE Returned("tf.string")

\* _numpy_to_tf_dtypes: the UnicodeWarning of lines 134-136 changes no state.
_numpy_to_tf_dtypes(numpy_dtype) ==
  IF Canon(numpy_dtype) \in DOMAIN _NUMPY_TO_TF_DTYPES_MAPPING
  THEN Returned(_NUMPY_TO_TF_DTYPES_MAPPING[Canon(numpy_dtype)])
  ELSE Raised("ValueError", numpy_dtype)

\* a list comprehension of calls: the first exception wins, else the list
RECURSIVE MapDtypes(_)
MapDtypes(types) ==
  IF types = <<>> THEN Returned(<<>>)
  ELSE LET h == _numpy_to_tf_dtypes(Head(types)) IN
       IF h.raised # "" THEN h
       ELSE LET r == MapDtypes(Tail(types)) IN
            IF r.raised # "" THEN r ELSE Returned(<<h.value>> \o r.value)

(***************************************************************************)
(* Field Sanitizer: _sanitize_field_tf_types.                              *)
(* A value is [kind, dtype, elt, data]: kind is the Python type ("None",   *)
(* "Decimal", "str", "int", "list", "ndarray"), dtype the numpy dtype of   *)
(* an array, elt the Python type of the elements of an object array, data  *)
(* the payload as integers.  A Decimal is data = <<coefficient, exponent>>;*)
(* a datetime64[s] array holds seconds since the epoch.                    *)
(* A row (a namedtuple) is a sequence of [k, v] in field order.            *)
(***************************************************************************)
Val(kind, dtype, elt, d) == [kind |-> kind, dtype |-> dtype, elt |-> elt, data |-> d]

None == Val("None", "", "", <<>>)

\* Decimal.normalize(): strip the coefficient's trailing zeros; zero is 0E0
RECURSIVE normalize(_)
normalize(d) ==
  IF d[1] = 0 THEN <<0, 0>>
  ELSE IF d[1] % 10 = 0 THEN normalize(<<d[1] \div 10, d[2] + 1>>)
  ELSE d

NsecPerSec == 1000000000

\* date_to_nsec_from_epoch(self, dt) is vectorized at class level (line 62)
\* as a plain function of two parameters; np.vectorize objects are not
\* descriptors, so self._date_to_nsec_from_epoch_vectorized(v) passes v as
\* `self` and nothing as `dt`: the call raises TypeError on its first element.
_date_to_nsec_from_epoch_vectorized(v) == Raised("TypeError", "dt")

\* the if / elif chain of lines 82-98 on one value that is not None
cast(v) ==
  CASE v.kind = "Decimal" ->
         Returned(Val("str", "", "", normalize(v.data)))
    [] v.kind = "ndarray" /\ v.dtype = "datetime64[s]" ->
         Returned(Val("ndarray", "int64", "",
                      [i \in DOMAIN v.data |-> v.data[i] * NsecPerSec]))
    [] v.kind = "ndarray" /\ v.dtype = "uint16" ->
         Returned([v EXCEPT !.dtype = "int32"])
    [] v.kind = "ndarray" /\ v.dtype \in {"bytes_", "unicode_"} ->
         IF Len(v.data) # 0 THEN Returned([v EXCEPT !.kind = "list"])
         ELSE Returned(v)
    [] v.kind = "ndarray" /\ v.dtype = "object" ->
         \* v[0] is evaluated before isinstance looks at it
         IF Len(v.data) = 0 THEN Raised("IndexError", "0")
         ELSE IF v.elt = "date" THEN _date_to_nsec_from_epoch_vectorized(v)
         ELSE Returned(v)
    [] OTHER -> Returned(v)

\* the loop of lines 77-98 from field i on, then line 101
RECURSIVE sanitize_from(_, _)
sanitize_from(row, i) ==
  IF i > Len(row) THEN Returned(row)
  ELSE IF row[i].v.kind = "None" THEN Raised("RuntimeError", row[i].k)
  ELSE LET c == cast(row[i].v) IN
       IF c.raised # "" THEN Raised(c.raised, row[i].k)
       ELSE sanitize_from([row EXCEPT ![i].v = c.value], i + 1)

_sanitize_field_tf_types(row) == sanitize_from(row, 1)

(***************************************************************************)
(* SpecSanitize: the reader returns one drawn row, then clean rows;        *)
(* dequeue_sample_impl (lines 223-228, and the loop body of line 350)      *)
(* pulls one row per call and sanitizes it.                                *)
(***************************************************************************)
MaxFields == 2

MaxPulls == 2

FieldNames == <<"a", "b", "c", "d">>

SampleValues ==
  { None,
    Val("Decimal", "", "", <<12300, -4>>),
    Val("Decimal", "", "", <<0, -2>>),
    Val("ndarray", "datetime64[s]", "", <<0, 2>>),
    Val("ndarray", "uint16", "", <<7>>),
    Val("ndarray", "bytes_", "", <<120>>),
    Val("ndarray", "bytes_", "", <<>>),
    Val("ndarray", "unicode_", "", <<120, 121>>),
    Val("ndarray", "object", "date", <<17000>>),
    Val("ndarray", "object", "int", <<5>>),
    Val("ndarray", "object", "", <<>>),
    Val("ndarray", "int32", "", <<3>>),
    Val("int", "", "", <<4>>),
    Val("str", "", "", <<120>>) }

SampleRows ==
  UNION { { [i \in 1..n |-> [k |-> FieldNames[i], v |-> vs[i]]] :
              vs \in [1..n -> SampleValues] } : n \in 1..MaxFields }

CleanRow == <<[k |-> "a", v |-> Val("int", "", "", <<4>>)]>>

\* no call made yet
Pending == [raised |-> "pending", arg |-> "", value |-> <<>>]

\* next(reader) then _sanitize_field_tf_types(next_sample); an exception
\* leaves the call, the row stays consumed
DequeueSample ==
  /\ spulls < MaxPulls
  /\ spulls' = spulls + 1
  /\ sresult' = [call |-> _sanitize_field_tf_types(sample), next_sample |-> sample]
  /\ sample' = CleanRow
  /\ UNCHANGED <<ngVars, brVars>>

(***************************************************************************)
(* The reader, its schema and its ngram descriptor (external to the file:  *)
(* the module reads reader.schema, reader.ngram, reader.batched_output).   *)
(* A schema is the sequence of its fields [name, numpy_dtype, shape] in    *)
(* schema.fields order; a shape is a sequence of dimensions, each a        *)
(* numeral or "None".  reader.ngram is [isNone, fields], fields a function *)
(* from timesteps to sets of field names.                                  *)
(***************************************************************************)
NoNgram == [isNone |-> TRUE, fields |-> <<>>]

NGram(f) == [isNone |-> FALSE, fields |-> f]

FieldOf(schema, name) == CHOOSE f \in Range(schema) : f.name = name

Names(fields) == [i \in DOMAIN fields |-> fields[i].name]

\* ngram.get_field_names_at_timestep(timestep): none at a timestep the
\* descriptor does not hold
get_field_names_at_timestep(ng, timestep) ==
  IF timestep \in DOMAIN ng.fields THEN ng.fields[timestep] ELSE {}

\* ngram.get_schema_at_timestep(schema, timestep): the schema's fields that
\* are active at the timestep, in schema order
get_schema_at_timestep(ng, schema, timestep) ==
  Restrict(schema, {f \in Range(schema) :
                      f.name \in get_field_names_at_timestep(ng, timestep)})

(***************************************************************************)
(* _schema_to_tf_dtypes and _schema_to_tf_dtypes_ngram.                    *)
(***************************************************************************)
_schema_to_tf_dtypes(schema) ==
  MapDtypes([i \in DOMAIN schema |-> schema[i].numpy_dtype])

TypesAt(ng, schema, keys) ==
  Concat([i \in DOMAIN keys |->
            LET new_schema == get_schema_at_timestep(ng, schema, keys[i])
            IN  [j \in DOMAIN new_schema |-> new_schema[j].numpy_dtype]])

\* the dtype list built over the whole schema at every timestep
_schema_to_tf_dtypes_ngram_whole(schema, ng) ==
  MapDtypes(Concat([i \in DOMAIN sorted(DOMAIN ng.fields) |->
                      [j \in DOMAIN schema |-> schema[j].numpy_dtype]]))

_schema_to_tf_dtypes_ngram(schema, ng) ==
  MapDtypes(TypesAt(ng, schema, sorted(DOMAIN ng.fields)))

(***************************************************************************)
(* Ngram Flattener: _flatten.  `flattened` is an OrderedDict: assigning an *)
(* existing key keeps its place.                                           *)
(***************************************************************************)
OrderedDictSet(od, key, value) ==
  IF \E i \in DOMAIN od : od[i].k = key
  THEN [i \in DOMAIN od |-> IF od[i].k = key THEN [k |-> key, v |-> value] ELSE od[i]]
  ELSE Append(od, [k |-> key, v |-> value])

\* key of the inner dictionary + '_' + the raw timestep
encoded_key_timestep(subkey, index, key) == subkey \o "_" \o ToString(key)

\* line 155: subkey + '_' + str(index)
encoded_key(subkey, index, key) == subkey \o "_" \o ToString(index)

\* the inner loop of lines 154-156 over one row, from its j-th field on
RECURSIVE flatten_row(_, _, _, _, _)
flatten_row(row, index, key, j, flattened) ==
  IF j > Len(row) THEN flattened
  ELSE flatten_row(row, index, key, j + 1,
         OrderedDictSet(flattened, encoded_key(row[j].k, index, key), row[j].v))

\* the outer loop of line 152 from the i-th sorted key on (index = i - 1)
RECURSIVE flatten_from(_, _, _, _)
flatten_from(d, keys, i, flattened) ==
  IF i > Len(keys) THEN flattened
  ELSE flatten_from(d, keys, i + 1,
         flatten_row(d[keys[i]], i - 1, keys[i], 1, flattened))

_flatten(d) == flatten_from(d, sorted(DOMAIN d), 1, <<>>)

(***************************************************************************)
(* Unflattener: make_namedtuple_tf_ngram.  args is the positional list,    *)
(* kargs a function from str(timestep) to a dictionary (a row).  The       *)
(* bridge calls the function of this name imported from                    *)
(* pycarbon.core.carbon_tf_utils; the class carries the same function as a *)
(* method, and that text is what is translated here.                       *)
(***************************************************************************)
\* new_schema._get_namedtuple()(*args, **kargs): every field exactly once
namedtuple_new(names, args, kargs) ==
  IF /\ Len(args) <= Len(names)
     /\ Len(args) + Len(kargs) = Len(names)
     /\ \A i \in DOMAIN names :
          i > Len(args) => \E j \in DOMAIN kargs : kargs[j].k = names[i]
  THEN Returned([i \in DOMAIN names |->
                   IF i <= Len(args) THEN [k |-> names[i], v |-> args[i]]
                   ELSE [k |-> names[i],
                         v |-> (CHOOSE e \in Range(kargs) : e.k = names[i]).v]])
  ELSE Raised("TypeError", "namedtuple")

\* args[previous_args_end:new_args_end]
Slice(args, from, to) ==
  [i \in 1..(Min({to, Len(args)}) - Min({from, Len(args)})) |-> args[from + i]]

\* the loop of lines 172-181 from `timestep` on
RECURSIVE unflatten_from(_, _, _, _, _, _, _)
unflatten_from(unischema, ng, args, kargs, timestep, previous_args_end, ngram_result) ==
  IF timestep > Max(DOMAIN ng.fields) THEN Returned(ngram_result)
  ELSE LET current_field_names == get_field_names_at_timestep(ng, timestep)
           new_schema == get_schema_at_timestep(ng, unischema, timestep)
           new_args_end == previous_args_end + Cardinality(current_field_names)
           args_timestep == Slice(args, previous_args_end, new_args_end)
           kargs_timestep == IF ToString(timestep) \in DOMAIN kargs
                             THEN kargs[ToString(timestep)] ELSE <<>>
           nt == namedtuple_new(Names(new_schema), args_timestep, kargs_timestep)
       IN  IF nt.raised # "" THEN nt
           ELSE unflatten_from(unischema, ng, args, kargs, timestep + 1, new_args_end,
                  [t \in DOMAIN ngram_result \cup {timestep} |->
                     IF t = timestep THEN nt.value ELSE ngram_result[t]])

\* the slice end is not carried over to the next timestep
make_namedtuple_tf_ngram_noadvance(unischema, ng, args, kargs) ==
  LET ts == sorted(Min(DOMAIN ng.fields)..Max(DOMAIN ng.fields))
      rows == [i \in DOMAIN ts |->
                 namedtuple_new(Names(get_schema_at_timestep(ng, unischema, ts[i])),
                   Slice(args, 0, Cardinality(get_field_names_at_timestep(ng, ts[i]))),
                   <<>>)]
  IN  IF \E i \in DOMAIN ts : rows[i].raised # "" THEN Raised("TypeError", "namedtuple")
      ELSE Returned([t \in Range(ts) |->
                       rows[CHOOSE i \in DOMAIN ts : ts[i] = t].value])

make_namedtuple_tf_ngram(unischema, ng, args, kargs) ==
  unflatten_from(unischema, ng, args, kargs, Min(DOMAIN ng.fields), 0, <<>>)

(***************************************************************************)
(* SpecNgram: a drawn descriptor over the schema and a drawn timestep ->   *)
(* row mapping go through the three steps of _tf_tensors_ngram that order  *)
(* fields: the dtype list (lines 265-266), dequeue_sample_impl (lines      *)
(* 254-263) and the positional reconstruction (line 274).                  *)
(***************************************************************************)
MaxTimestep == 1

Timesteps == (0 - 1)..MaxTimestep

NgramSchema ==
  << [name |-> "a", numpy_dtype |-> "np.int32", shape |-> <<>>],
     [name |-> "b", numpy_dtype |-> "np.float32", shape |-> <<"3", "4">>],
     [name |-> "c", numpy_dtype |-> "Decimal", shape |-> <<"None">>] >>

Descriptors ==
  UNION { [T -> SUBSET Range(Names(NgramSchema))] : T \in (SUBSET Timesteps) \ {{}} }

IndexOf(seq, x) == CHOOSE i \in DOMAIN seq : seq[i] = x

\* a value that names its cell
CellValue(schema, t, name) ==
  Val("int", "", "", <<10 * (t + 1) + IndexOf(Names(schema), name)>>)

\* the mapping a reader yields: one row per timestep of the descriptor, a
\* namedtuple of the schema at that timestep (or, reversed, a row of the
\* same fields in another order)
RowsFor(r, reversed) ==
  [t \in DOMAIN r.ngram.fields |->
     LET names == Names(get_schema_at_timestep(r.ngram, r.schema, t))
         row == [j \in DOMAIN names |->
                   [k |-> names[j], v |-> CellValue(r.schema, t, names[j])]]
     IN  IF reversed THEN Reverse(row) ELSE row]

\* dequeue_sample_impl of _tf_tensors_ngram on the mapping next(reader) gave
ngram_dequeue_sample_impl(next_sample) ==
  LET san == [t \in DOMAIN next_sample |-> _sanitize_field_tf_types(next_sample[t])]
      bad == {t \in DOMAIN next_sample : san[t].raised # ""}
  IN  IF bad # {} THEN san[Min(bad)]
      ELSE Returned(_flatten([t \in DOMAIN next_sample |-> san[t].value]))

Values(row) == [i \in DOMAIN row |-> row[i].v]

NgramDtypes ==
  /\ ~reader.ngram.isNone
  /\ ngdtypes.raised = "pending"
  /\ ngdtypes' = _schema_to_tf_dtypes_ngram(reader.schema, reader.ngram)
  /\ UNCHANGED <<data, flat, unflat, sanVars, brVars>>

NgramDequeueSample ==
  /\ ~reader.ngram.isNone
  /\ flat.raised = "pending"
  /\ flat' = ngram_dequeue_sample_impl(data)
  /\ UNCHANGED <<data, ngdtypes, unflat, sanVars, brVars>>

NgramUnflatten ==
  /\ ~reader.ngram.isNone
  /\ flat.raised = ""
  /\ unflat.raised = "pending"
  /\ unflat' = make_namedtuple_tf_ngram(reader.schema, reader.ngram, Values(flat.value), <<>>)
  /\ UNCHANGED <<data, flat, ngdtypes, sanVars, brVars>>

(***************************************************************************)
(* Graph construction.  A tensor is [dtype, shape]; its static shape is    *)
(* <<"unknown">> until set_shape is applied.  The graph counts the nodes   *)
(* the calls created: py_funcs, queues, the queue size ops, enqueue ops,   *)
(* datasets; `direct` counts the py_funcs a caller evaluates without a     *)
(* queue in between.  A construction call returns [raised, arg, value,     *)
(* graph, runners]: its result or exception, and the graph and the queue   *)
(* runner collection it leaves.                                            *)
(***************************************************************************)
Tensor(dtype) == [dtype |-> dtype, shape |-> <<"unknown">>]

Built(v, g, rn) == [raised |-> "", arg |-> "", value |-> v, graph |-> g, runners |-> rn]

Failed(e, a, g, rn) == [raised |-> e, arg |-> a, value |-> <<>>, graph |-> g, runners |-> rn]

\* _set_shape: batched_output defaults to None, which is false
_set_shape(schema, fields_as_dict, batched_output) ==
  [i \in DOMAIN fields_as_dict |->
     LET unischema_field == FieldOf(schema, fields_as_dict[i].k)
         shape == IF batched_output THEN <<"None">> \o unischema_field.shape
                  ELSE unischema_field.shape
     IN  [fields_as_dict[i] EXCEPT !.v.shape = shape]]

\* line 210: 1 * [shuffling_queue.enqueue(fields_as_list)]
NumEnqueueOps == 1

\* _shuffling_queue: a new queue, its size op, one queue runner holding the
\* enqueue ops (one thread each), and the dequeued tensor list
_shuffling_queue(g, rn, shuffling_queue_capacity, min_after_dequeue, dtypes) ==
  [ graph |-> [g EXCEPT !.queues = @ + 1, !.size_ops = @ + 1,
                        !.enqueue_ops = @ + NumEnqueueOps],
    runners |-> Append(rn, [capacity |-> shuffling_queue_capacity,
                            min_after_dequeue |-> min_after_dequeue,
                            size |-> 0,
                            threads |-> [i \in 1..NumEnqueueOps |-> "idle"]]),
    fields_as_list |-> [i \in DOMAIN dtypes |-> Tensor(dtypes[i])] ]

\* schema.make_namedtuple_tf(*fields_as_list)._asdict()
make_namedtuple_tf(schema, args) == namedtuple_new(Names(schema), args, <<>>)

_tf_tensors_nonngram(r, g, rn, shuffling_queue_capacity, min_after_dequeue) ==
  LET dtypes == _schema_to_tf_dtypes(r.schema) IN
  IF dtypes.raised # "" THEN Failed(dtypes.raised, dtypes.arg, g, rn)
  ELSE
    LET direct == IF shuffling_queue_capacity > 0 THEN 0 ELSE 1
        g1 == [g EXCEPT !.py_funcs = @ + 1, !.direct = @ + direct]
        q == IF shuffling_queue_capacity > 0
             THEN _shuffling_queue(g1, rn, shuffling_queue_capacity,
                                   min_after_dequeue, dtypes.value)
             ELSE [graph |-> g1, runners |-> rn,
                   fields_as_list |-> [i \in DOMAIN dtypes.value |-> Tensor(dtypes.value[i])]]
        nt == make_namedtuple_tf(r.schema, q.fields_as_list)
    IN  IF nt.raised # "" THEN Failed(nt.raised, nt.arg, q.graph, q.runners)
        ELSE Built(_set_shape(r.schema, nt.value, r.batched_output), q.graph, q.runners)

\* lines 277-280: str(timestep) -> _asdict(), then _set_shape per timestep
\* with no batched_output argument
ngram_set_shapes(r, fields_as_namedtuple) ==
  [s \in {ToString(t) : t \in DOMAIN fields_as_namedtuple} |->
     _set_shape(r.schema,
                fields_as_namedtuple[CHOOSE t \in DOMAIN fields_as_namedtuple : ToString(t) = s],
                FALSE)]

_tf_tensors_ngram(r, g, rn, shuffling_queue_capacity, min_after_dequeue) ==
  LET dtypes == _schema_to_tf_dtypes_ngram(r.schema, r.ngram) IN
  IF dtypes.raised # "" THEN Failed(dtypes.raised, dtypes.arg, g, rn)
  ELSE
    LET direct == IF shuffling_queue_capacity > 0 THEN 0 ELSE 1
        g1 == [g EXCEPT !.py_funcs = @ + 1, !.direct = @ + direct]
        q == IF shuffling_queue_capacity > 0
             THEN _shuffling_queue(g1, rn, shuffling_queue_capacity,
                                   min_after_dequeue, dtypes.value)
             ELSE [graph |-> g1, runners |-> rn,
                   fields_as_list |-> [i \in DOMAIN dtypes.value |-> Tensor(dtypes.value[i])]]
        fields_as_namedtuple ==
          make_namedtuple_tf_ngram(r.schema, r.ngram, q.fields_as_list, <<>>)
    IN  IF fields_as_namedtuple.raised # ""
        THEN Failed(fields_as_namedtuple.raised, fields_as_namedtuple.arg, q.graph, q.runners)
        ELSE LET res == make_namedtuple_tf_ngram(r.schema, r.ngram, <<>>,
                          ngram_set_shapes(r, fields_as_namedtuple.value))
             IN  IF res.raised # "" THEN Failed(res.raised, res.arg, q.graph, q.runners)
                 ELSE Built(res.value, q.graph, q.runners)

\* make_tensor with the configuration check after the tensors are built
make_tensor_late_check(r, g, rn, shuffling_queue_capacity, min_after_dequeue) ==
  LET result == IF ~r.ngram.isNone
                THEN _tf_tensors_ngram(r, g, rn, shuffling_queue_capacity, min_after_dequeue)
                ELSE _tf_tensors_nonngram(r, g, rn, shuffling_queue_capacity, min_after_dequeue)
  IN  IF r.batched_output /\ shuffling_queue_capacity > 0
      THEN Failed("ValueError", "shuffling_queue_capacity", result.graph, result.runners)
      ELSE result

make_tensor(r, g, rn, shuffling_queue_capacity, min_after_dequeue) ==
  IF r.batched_output /\ shuffling_queue_capacity > 0
  THEN Failed("ValueError", "shuffling_queue_capacity", g, rn)
  ELSE IF ~r.ngram.isNone
       THEN _tf_tensors_ngram(r, g, rn, shuffling_queue_capacity, min_after_dequeue)
       ELSE _tf_tensors_nonngram(r, g, rn, shuffling_queue_capacity, min_after_dequeue)

\* make_dataset: the dataset node with its element structure, each tensor
\* named by make_namedtuple_tf and shaped by _set_shape_to_named_tuple
make_dataset(r, g, rn) ==
  IF r.ngram.isNone
  THEN LET dtypes == _schema_to_tf_dtypes(r.schema) IN
       IF dtypes.raised # "" THEN Failed(dtypes.raised, dtypes.arg, g, rn)
       ELSE LET nt == make_namedtuple_tf(r.schema,
                        [i \in DOMAIN dtypes.value |-> Tensor(dtypes.value[i])])
            IN  IF nt.raised # "" THEN Failed(nt.raised, nt.arg, g, rn)
                ELSE Built(_set_shape(r.schema, nt.value, r.batched_output),
                           [g EXCEPT !.datasets = @ + 1], rn)
  ELSE Failed("NotImplementedError", "NGram", g, rn)

(***************************************************************************)
(* The reader's iteration (external to the file): RowsPerEpoch rows per    *)
(* epoch, `epochs` further epochs after the current one; the call that     *)
(* finds nothing left raises StopIteration and sets last_row_consumed.     *)
(***************************************************************************)
RowsPerEpoch == 2

MaxExtraEpochs == 1

reader_next(rs) ==
  IF rs.left > 0 THEN [row |-> TRUE, rs |-> [rs EXCEPT !.left = @ - 1]]
  ELSE IF rs.epochs > 0
       THEN [row |-> TRUE, rs |-> [rs EXCEPT !.left = RowsPerEpoch - 1, !.epochs = @ - 1]]
       ELSE [row |-> FALSE, rs |-> [rs EXCEPT !.last_row_consumed = TRUE]]

\* a value of the declared type, as the reader decodes it
ValueOfType(t) ==
  CASE Canon(t) = "Decimal" -> Val("Decimal", "", "", <<12300, -4>>)
    [] Canon(t) = "np.datetime64" -> Val("ndarray", "datetime64[s]", "", <<0, 2>>)
    [] Canon(t) = "np.uint16" -> Val("ndarray", "uint16", "", <<7>>)
    [] Canon(t) = "np.bytes_" -> Val("ndarray", "bytes_", "", <<120>>)
    [] Canon(t) = "np.str_" -> Val("ndarray", "unicode_", "", <<120, 121>>)
    [] OTHER -> Val("ndarray", t, "", <<3>>)

RowOf(fields) ==
  [i \in DOMAIN fields |-> [k |-> fields[i].name, v |-> ValueOfType(fields[i].numpy_dtype)]]

\* what dequeue_sample_impl makes of the row next(reader) returned
dequeue_sample_impl(r) ==
  IF r.ngram.isNone THEN _sanitize_field_tf_types(RowOf(r.schema))
  ELSE ngram_dequeue_sample_impl(
         [t \in DOMAIN r.ngram.fields |-> RowOf(get_schema_at_timestep(r.ngram, r.schema, t))])

(***************************************************************************)
(* make_dataset's generator, lines 341-350.  A generator instance is       *)
(* [st, yielded, error, started_consumed]: created (body not entered),     *)
(* suspended (at the yield), done (the loop ended), raised.                *)
(***************************************************************************)
NewGenerator == [st |-> "created", yielded |-> 0, error |-> "", started_consumed |-> FALSE]

\* the loop of lines 349-350 up to its next yield
generator_loop(gen, rs, r) ==
  LET nx == reader_next(rs)
      row == dequeue_sample_impl(r)
  IN  IF ~nx.row THEN [gen |-> [gen EXCEPT !.st = "done"], rs |-> nx.rs]
      ELSE IF row.raised # ""
           THEN [gen |-> [gen EXCEPT !.st = "raised", !.error = row.raised], rs |-> nx.rs]
           ELSE [gen |-> [gen EXCEPT !.st = "suspended", !.yielded = @ + 1], rs |-> nx.rs]

\* the generator without the guard of lines 342-348
generator_next_unguarded(gen, rs, r) ==
  generator_loop([gen EXCEPT !.started_consumed =
                    IF gen.st = "created" THEN rs.last_row_consumed ELSE @], rs, r)

\* next() on a generator instance that is created or suspended
generator_next(gen, rs, r) ==
  IF gen.st = "created"
  THEN IF rs.last_row_consumed
       THEN [gen |-> [gen EXCEPT !.st = "raised", !.error = "RuntimeError",
                                 !.started_consumed = TRUE],
             rs |-> rs]
       ELSE generator_loop(gen, rs, r)
  ELSE generator_loop(gen, rs, r)

(***************************************************************************)
(* Spec: one reader; callers build tensors and datasets on it, the graph   *)
(* runtime evaluates them.                                                 *)
(***************************************************************************)
MaxCalls == 2

MaxGens == 2

QueueCapacity == 1

AllTypes ==
  DOMAIN _NUMPY_TO_TF_DTYPES_MAPPING
    \cup {"np.string_", "np.unicode_", "np.uint32", "np.uint64", "np.float16", "np.object_"}

Schema(ta, tb) ==
  << [name |-> "a", numpy_dtype |-> ta, shape |-> <<>>],
     [name |-> "b", numpy_dtype |-> tb, shape |-> <<"3", "4">>] >>

Ngrams ==
  { NoNgram,
    NGram([t \in {0} |-> {"b"}]),
    NGram([t \in {0 - 1, 0} |-> {"a", "b"}]),
    NGram([t \in {0, 1} |-> IF t = 0 THEN {"b"} ELSE {"a", "b"}]) }

Readers(typesA, typesB, ngrams) ==
  { [schema |-> Schema(ta, tb), ngram |-> ng, batched_output |-> bo] :
      ta \in typesA, tb \in typesB, ng \in ngrams, bo \in BOOLEAN }

FreshReader ==
  { [left |-> RowsPerEpoch, epochs |-> e, last_row_consumed |-> FALSE] :
      e \in 0..MaxExtraEpochs }

IdleReader == [left |-> 0, epochs |-> 0, last_row_consumed |-> FALSE]

EmptyGraph == [py_funcs |-> 0, direct |-> 0, queues |-> 0, size_ops |-> 0,
               enqueue_ops |-> 0, datasets |-> 0]

NoCall == [n |-> 0, op |-> "none", cap |-> 0, raised |-> "", arg |-> "", value |-> <<>>]

\* a caller invokes make_tensor(reader, shuffling_queue_capacity, 0)
MakeTensor ==
  \E cap \in {0, QueueCapacity} :
    /\ lastCall.n < MaxCalls
    /\ LET c == make_tensor(reader, graph, runners, cap, 0) IN
         /\ graph' = c.graph
         /\ runners' = c.runners
         /\ lastCall' = [n |-> lastCall.n + 1, op |-> "make_tensor", cap |-> cap,
                         raised |-> c.raised, arg |-> c.arg, value |-> c.value]
    /\ UNCHANGED <<reader, rstate, gens, sanVars, ngVars>>

\* a caller invokes make_dataset(reader)
MakeDataset ==
  /\ lastCall.n < MaxCalls
  /\ LET c == make_dataset(reader, graph, runners) IN
       /\ graph' = c.graph
       /\ runners' = c.runners
       /\ lastCall' = [n |-> lastCall.n + 1, op |-> "make_dataset", cap |-> 0,
                       raised |-> c.raised, arg |-> c.arg, value |-> c.value]
  /\ UNCHANGED <<reader, rstate, gens, sanVars, ngVars>>

\* the session evaluates a tensor fed by a py_func without a queue: one
\* call of dequeue_sample_impl, whose exception fails that evaluation only
RunTensor ==
  /\ graph.direct > 0
  /\ rstate' = reader_next(rstate).rs
  /\ UNCHANGED <<reader, graph, runners, gens, lastCall, sanVars, ngVars>>

\* a queue runner thread runs its enqueue op: the py_func calls next(reader)
RunnerPullStart(q, i) ==
  /\ runners[q].threads[i] = "idle"
  /\ runners' = [runners EXCEPT ![q].threads[i] = "pulling"]
  /\ UNCHANGED <<reader, rstate, graph, gens, lastCall, sanVars, ngVars>>

\* next(reader) returns or raises; an exception ends the thread
RunnerPullReturn(q, i) ==
  /\ runners[q].threads[i] = "pulling"
  /\ LET nx == reader_next(rstate) IN
       /\ rstate' = nx.rs
       /\ runners' = [runners EXCEPT ![q].threads[i] =
                        IF nx.row /\ dequeue_sample_impl(reader).raised = ""
                        THEN "enqueue" ELSE "stopped"]
  /\ UNCHANGED <<reader, graph, gens, lastCall, sanVars, ngVars>>

\* the enqueue completes once the queue has room
RunnerEnqueue(q, i) ==
  /\ runners[q].threads[i] = "enqueue"
  /\ runners[q].size < runners[q].capacity
  /\ runners' = [runners EXCEPT ![q].threads[i] = "idle", ![q].size = @ + 1]
  /\ UNCHANGED <<reader, rstate, graph, gens, lastCall, sanVars, ngVars>>

\* the session evaluates the dequeued tensors
Dequeue(q) ==
  /\ runners[q].size > runners[q].min_after_dequeue
  /\ runners' = [runners EXCEPT ![q].size = @ - 1]
  /\ UNCHANGED <<reader, rstate, graph, gens, lastCall, sanVars, ngVars>>

\* the dataset runtime calls dequeue_sample_impl(): a new generator instance
GeneratorCreate ==
  /\ graph.datasets > 0
  /\ Len(gens) < MaxGens
  /\ gens' = Append(gens, NewGenerator)
  /\ UNCHANGED <<reader, rstate, graph, runners, lastCall, sanVars, ngVars>>

\* the dataset runtime asks a generator instance for its next element
GeneratorNext(g) ==
  /\ gens[g].st \in {"created", "suspended"}
  /\ LET nx == generator_next(gens[g], rstate, reader) IN
       /\ gens' = [gens EXCEPT ![g] = nx.gen]
       /\ rstate' = nx.rs
  /\ UNCHANGED <<reader, graph, runners, lastCall, sanVars, ngVars>>

Next ==
  \/ MakeTensor
  \/ MakeDataset
  \/ RunTensor
  \/ \E q \in DOMAIN runners : \E i \in DOMAIN runners[q].threads : RunnerPullStart(q, i)
  \/ \E q \in DOMAIN runners : \E i \in DOMAIN runners[q].threads : RunnerPullReturn(q, i)
  \/ \E q \in DOMAIN runners : \E i \in DOMAIN runners[q].threads : RunnerEnqueue(q, i)
  \/ \E q \in DOMAIN runners : Dequeue(q)
  \/ GeneratorCreate
  \/ \E g \in DOMAIN gens : GeneratorNext(g)


Init ==
  /\ sample = CleanRow
  /\ spulls = 0
  /\ sresult = [call |-> Pending, next_sample |-> <<>>]
  /\ data = <<>>
  /\ flat = Pending
  /\ ngdtypes = Pending
  /\ unflat = Pending
  /\ reader \in Readers({"np.uint16", "np.uint32"}, {"np.float32"},
                        {NoNgram, NGram([t \in {0 - 1, 0} |-> {"b"}])})
  /\ rstate \in FreshReader
  /\ graph = EmptyGraph
  /\ runners = <<>>
  /\ gens = <<>>
  /\ lastCall = NoCall

Spec == Init /\ [][Next]_vars

(***************************************************************************)
(* SpecTypes: construction over every declared type, mapped or not.        *)
(***************************************************************************)
InitTypes ==
  /\ sample = CleanRow
  /\ spulls = 0
  /\ sresult = [call |-> Pending, next_sample |-> <<>>]
  /\ data = <<>>
  /\ flat = Pending
  /\ ngdtypes = Pending
  /\ unflat = Pending
  /\ reader \in Readers(AllTypes, {"np.float32", "np.uint64"}, Ngrams)
  /\ rstate \in FreshReader
  /\ graph = EmptyGraph
  /\ runners = <<>>
  /\ gens = <<>>
  /\ lastCall = NoCall

NextTypes == MakeTensor \/ MakeDataset \/ RunTensor

SpecTypes == InitTypes /\ [][NextTypes]_vars

InitSanitize ==
  /\ sample \in SampleRows
  /\ spulls = 0
  /\ sresult = [call |-> Pending, next_sample |-> <<>>]
  /\ data = <<>>
  /\ flat = Pending
  /\ ngdtypes = Pending
  /\ unflat = Pending
  /\ reader = [schema |-> NgramSchema, ngram |-> NoNgram, batched_output |-> FALSE]
  /\ rstate = IdleReader
  /\ graph = EmptyGraph
  /\ runners = <<>>
  /\ gens = <<>>
  /\ lastCall = NoCall

NextSanitize == DequeueSample

SpecSanitize == InitSanitize /\ [][NextSanitize]_vars

NgramReaders ==
  { [schema |-> NgramSchema, ngram |-> NGram(f), batched_output |-> FALSE] :
      f \in Descriptors }

InitNgram ==
  /\ sample = CleanRow
  /\ spulls = 0
  /\ sresult = [call |-> Pending, next_sample |-> <<>>]
  /\ reader \in NgramReaders
  /\ data \in { RowsFor(reader, reversed) : reversed \in BOOLEAN }
  /\ flat = Pending
  /\ ngdtypes = Pending
  /\ unflat = Pending
  /\ rstate = IdleReader
  /\ graph = EmptyGraph
  /\ runners = <<>>
  /\ gens = <<>>
  /\ lastCall = NoCall

NextNgram == NgramDtypes \/ NgramDequeueSample \/ NgramUnflatten

SpecNgram == InitNgram /\ [][NextNgram]_vars

(***************************************************************************)
(* Properties of the ngram pipeline (SpecNgram).                           *)
(***************************************************************************)
\* the descriptor's timesteps form a contiguous range [min, max]
Contiguous(ng) == DOMAIN ng.fields = Min(DOMAIN ng.fields)..Max(DOMAIN ng.fields)

\* the mapping holds one row per timestep of the descriptor, each a
\* namedtuple of the schema at that timestep
Matches(d, r) ==
  /\ DOMAIN d = DOMAIN r.ngram.fields
  /\ \A t \in DOMAIN d : Names([j \in DOMAIN d[t] |-> [name |-> d[t][j].k]])
                           = Names(get_schema_at_timestep(r.ngram, r.schema, t))

\* 0-based position of timestep t among the ascending timesteps of d
PositionOf(d, t) == Cardinality({u \in DOMAIN d : u < t})

RECURSIVE SumLen(_, _)
SumLen(d, T) ==
  IF T = {} THEN 0 ELSE LET t == CHOOSE u \in T : TRUE IN Len(d[t]) + SumLen(d, T \ {t})

\* number of entries flattened before the row of timestep t
Before(d, t) == SumLen(d, {u \in DOMAIN d : u < t})

C4_FlattenUnflattenRoundTrip ==
  (unflat.raised # "pending" /\ Contiguous(reader.ngram) /\ Matches(data, reader)) =>
    /\ unflat.raised = ""
    /\ DOMAIN unflat.value = Min(DOMAIN reader.ngram.fields)..Max(DOMAIN reader.ngram.fields)
    /\ \A t \in DOMAIN unflat.value :
         /\ Len(unflat.value[t]) = Len(data[t])
         /\ \A j \in DOMAIN data[t] : unflat.value[t][j] = data[t][j]

\* C4 witness: three timesteps with different, overlapping field sets were
\* flattened and unflattened
C4_Witness ==
  /\ unflat.raised = ""
  /\ Matches(data, reader)
  /\ DOMAIN reader.ngram.fields = Timesteps
  /\ reader.ngram.fields[0 - 1] = {"b", "c"}
  /\ reader.ngram.fields[0] = {"a"}
  /\ reader.ngram.fields[1] = {"a", "b", "c"}

\* the schema field a flattened key was made from
FieldOfKey(schema, key) ==
  CHOOSE f \in Range(schema) :
    \E p \in 0..Cardinality(Timesteps) : key = f.name \o "_" \o ToString(p)

\* C9: for a mapping the reader yields for the descriptor, the dtype list
\* is as long as the flattened row and its i-th dtype is the mapped type of
\* the field stored at position i; and the unflattener hands each
\* (timestep, field) the position that was flattened from that timestep
\* and field.
C9_DtypeValueAlignment ==
  (Matches(data, reader) /\ ngdtypes.raised # "pending" /\ flat.raised # "pending") =>
    /\ ngdtypes.raised = "" /\ flat.raised = ""
    /\ Len(ngdtypes.value) = Len(flat.value)
    /\ \A i \in DOMAIN flat.value :
         ngdtypes.value[i] =
           _NUMPY_TO_TF_DTYPES_MAPPING[FieldOfKey(reader.schema, flat.value[i].k).numpy_dtype]
    /\ unflat.raised # "pending" =>
         /\ unflat.raised = ""
         /\ \A t \in DOMAIN unflat.value : \A j \in DOMAIN unflat.value[t] :
              \E i \in DOMAIN flat.value :
                /\ flat.value[i].v = unflat.value[t][j].v
                /\ flat.value[i].k =
                     unflat.value[t][j].k \o "_" \o ToString(PositionOf(data, t))
                /\ i = Before(data, t) + j

\* C9 witness: a descriptor with a gap-free pair of timesteps holding
\* fields of different types went through all three steps
C9_Witness ==
  /\ Matches(data, reader)
  /\ ngdtypes.raised = "" /\ flat.raised = "" /\ unflat.raised = ""
  /\ DOMAIN reader.ngram.fields = {0, 1}
  /\ reader.ngram.fields[0] = {"a", "c"}
  /\ reader.ngram.fields[1] = {"b", "c"}

(***************************************************************************)
(* Properties of the sanitizer (SpecSanitize).                             *)
(***************************************************************************)
HasNone(row) == \E i \in DOMAIN row : row[i].v.kind = "None"

FirstNone(row) == row[Min({i \in DOMAIN row : row[i].v.kind = "None"})].k

\* the values the sanitizer is documented to rewrite
IsRewritten(v) ==
  \/ v.kind = "Decimal"
  \/ v.kind = "ndarray" /\ v.dtype = "datetime64[s]"
  \/ v.kind = "ndarray" /\ v.dtype = "uint16"
  \/ v.kind = "ndarray" /\ v.dtype \in {"bytes_", "unicode_"} /\ Len(v.data) # 0
  \/ v.kind = "ndarray" /\ v.dtype = "object" /\ Len(v.data) # 0 /\ v.elt = "date"

\* C6: a call whose row holds a None field fails with the null-value error
\* naming the first None field, and has pulled exactly that one row.
C6_NullAbortsPull ==
  (sresult.call.raised # "pending" /\ HasNone(sresult.next_sample)) =>
    /\ sresult.call.raised = "RuntimeError"
    /\ sresult.call.arg = FirstNone(sresult.next_sample)
    /\ spulls = 1

\* C10: a call on a row without None returns a record with the same field
\* names in the same order in which every value outside the rewritten
\* kinds is unchanged, and fails for no such row.
C10_SanitizerFrame ==
  (sresult.call.raised # "pending" /\ ~HasNone(sresult.next_sample)) =>
    /\ sresult.call.raised = ""
    /\ Len(sresult.call.value) = Len(sresult.next_sample)
    /\ \A i \in DOMAIN sresult.next_sample :
         /\ sresult.call.value[i].k = sresult.next_sample[i].k
         /\ ~IsRewritten(sresult.next_sample[i].v) =>
              sresult.call.value[i].v = sresult.next_sample[i].v

(***************************************************************************)
(* Properties of the bridges (Spec).                                       *)
(***************************************************************************)
\* C1: a make_tensor call on a batched reader with a positive queue
\* capacity, and a make_dataset call on an ngram reader, raise, and leave
\* the reader where it was (no row pulled) and the graph, the queue
\* runners and the generators as they were (nothing created), whatever
\* the reader's state.
C1_EagerRejection ==
  [][ lastCall'.n # lastCall.n =>
        /\ (lastCall'.op = "make_tensor" /\ reader.batched_output /\ lastCall'.cap > 0) =>
             /\ lastCall'.raised = "ValueError"
             /\ rstate' = rstate /\ graph' = graph /\ runners' = runners /\ gens' = gens
        /\ (lastCall'.op = "make_dataset" /\ ~reader.ngram.isNone) =>
             /\ lastCall'.raised = "NotImplementedError"
             /\ rstate' = rstate /\ graph' = graph /\ runners' = runners /\ gens' = gens
    ]_vars

\* C1 witness: make_tensor with a queue was rejected on a batched reader
\* that an earlier tensor had already pulled rows from
C1_Witness ==
  /\ lastCall.op = "make_tensor" /\ lastCall.cap > 0
  /\ lastCall.raised = "ValueError"
  /\ reader.batched_output
  /\ graph.py_funcs = 1
  /\ rstate.left < RowsPerEpoch

RECURSIVE CountThreads(_, _)
CountThreads(rn, states) ==
  IF rn = <<>> THEN 0
  ELSE Cardinality({i \in DOMAIN Head(rn).threads : Head(rn).threads[i] \in states})
         + CountThreads(Tail(rn), states)

ThreadStates == {"idle", "pulling", "enqueue", "stopped"}

\* C2: however often the shuffling queue is set up on the reader, exactly
\* one enqueue task is registered, and at most one next(reader) call of an
\* enqueue task is in progress.
C2_SingleProducer ==
  /\ graph.queues > 0 => CountThreads(runners, ThreadStates) = 1
  /\ CountThreads(runners, {"pulling"}) <= 1

\* C3: a generator instance started once last_row_consumed is set raises
\* the restart error, yields nothing and pulls nothing; the restart error
\* is raised in no other case; and while the reader has rows left in this
\* or a further epoch, a generator step yields one more row.
C3_RestartGuard ==
  [][ \A g \in DOMAIN gens : gens'[g] # gens[g] =>
        /\ (gens[g].st = "created" /\ rstate.last_row_consumed) =>
             /\ gens'[g].st = "raised" /\ gens'[g].error = "RuntimeError"
             /\ gens'[g].yielded = 0
             /\ rstate' = rstate
        /\ gens'[g].error = "RuntimeError" =>
             (gens[g].st = "created" /\ rstate.last_row_consumed)
        /\ (~rstate.last_row_consumed /\ (rstate.left > 0 \/ rstate.epochs > 0)) =>
             /\ gens'[g].st = "suspended"
             /\ gens'[g].yielded = gens[g].yielded + 1
    ]_vars

\* C3 witness: the first generator yielded the rows of two epochs and
\* ended, and a second one was then refused
C3_Witness ==
  /\ Len(gens) = 2
  /\ gens[1].st = "done" /\ gens[1].yielded = 2 * RowsPerEpoch
  /\ gens[2].st = "raised" /\ gens[2].error = "RuntimeError" /\ gens[2].yielded = 0
  /\ rstate.last_row_consumed

\* the named tensors a call returned
TensorsOf(c) ==
  IF c.op = "make_tensor" /\ ~reader.ngram.isNone
  THEN UNION {Range(c.value[t]) : t \in DOMAIN c.value}
  ELSE Range(c.value)

\* C8: every tensor a call returned carries its field's declared shape,
\* with one leading unbound dimension exactly when the reader is batched.
C8_StaticShapes ==
  (lastCall.op # "none" /\ lastCall.raised = "") =>
    \A e \in TensorsOf(lastCall) :
      e.v.shape = IF reader.batched_output
                  THEN <<"None">> \o FieldOf(reader.schema, e.k).shape
                  ELSE FieldOf(reader.schema, e.k).shape

(***************************************************************************)
(* Properties of the type mapper (SpecTypes).                              *)
(***************************************************************************)
\* the documented table: 16-bit unsigned widens to signed 32-bit; decimal,
\* byte strings and unicode strings become strings; datetime64 becomes a
\* 64-bit integer; every other type keeps its name
Documented ==
  [t \in {"np.bool", "np.bool_", "np.int8", "np.int16", "np.int32", "np.int64",
          "np.uint8", "np.uint16", "np.float32", "np.float64", "np.string_",
          "np.bytes_", "np.unicode_", "np.str_", "Decimal", "np.datetime64"} |->
     CASE t = "np.uint16" -> "tf.int32"
       [] t \in {"Decimal", "np.string_", "np.bytes_", "np.unicode_", "np.str_"} -> "tf.string"
       [] t = "np.datetime64" -> "tf.int64"
       [] t \in {"np.bool", "np.bool_"} -> "tf.bool"
       [] t = "np.int8" -> "tf.int8"
       [] t = "np.int16" -> "tf.int16"
       [] t = "np.int32" -> "tf.int32"
       [] t = "np.int64" -> "tf.int64"
       [] t = "np.uint8" -> "tf.uint8"
       [] t = "np.float32" -> "tf.float32"
       [] t = "np.float64" -> "tf.float64"]

SchemaTypes == {f.numpy_dtype : f \in Range(reader.schema)}

\* the types of the fields active at some timestep of the descriptor
NgramTypes ==
  {f.numpy_dtype : f \in {g \in Range(reader.schema) :
                             \E t \in DOMAIN reader.ngram.fields : g.name \in reader.ngram.fields[t]}}

\* the types a call maps
MappedTypes(op) ==
  IF op = "make_tensor" /\ ~reader.ngram.isNone THEN NgramTypes ELSE SchemaTypes

\* the call is refused for its configuration, whatever the types
ConfigRefused(c) ==
  \/ c.op = "make_tensor" /\ reader.batched_output /\ c.cap > 0
  \/ c.op = "make_dataset" /\ ~reader.ngram.isNone

\* a call (the step to lastCall') against the types `used`: a returned
\* tensor has the documented type of its field; a call none of whose used
\* types is outside the table does not fail on a type; a call with a used
\* type outside the table fails, with the type-mapping error carrying such
\* a type unless its configuration was refused first, and leaves the
\* reader, the graph and the queue runners untouched.
TypeContract(used) ==
  lastCall'.n # lastCall.n =>
    /\ lastCall'.raised = "" =>
         \A e \in TensorsOf(lastCall') :
           /\ FieldOf(reader.schema, e.k).numpy_dtype \in DOMAIN Documented
           /\ e.v.dtype = Documented[FieldOf(reader.schema, e.k).numpy_dtype]
    /\ ((\A t \in used : t \in DOMAIN Documented) /\ ~ConfigRefused(lastCall')) =>
         lastCall'.raised = ""
    /\ (\E t \in used : t \notin DOMAIN Documented) =>
         /\ lastCall'.raised # ""
         /\ ~ConfigRefused(lastCall') =>
              /\ lastCall'.raised = "ValueError"
              /\ lastCall'.arg \in used /\ lastCall'.arg \notin DOMAIN Documented
         /\ rstate' = rstate /\ graph' = graph /\ runners' = runners

\* C7 as stated: the contract holds of every call against the types of all
\* the schema's fields.
C7_AnySchemaFieldUnmappedFails == [][TypeContract(SchemaTypes)]_vars

\* C7 amended: the contract holds of every call against the types the call
\* maps: all the schema's fields for make_dataset and for make_tensor on a
\* reader without ngram, the fields active at some timestep for
\* make_tensor on an ngram reader.
C7_MappedFieldUnmappedFails == [][TypeContract(MappedTypes(lastCall'.op))]_vars

\* C7 witness: make_tensor on an ngram reader failed on the unmapped type
\* of a field active at a timestep, next to a uint16 field
C7_Witness ==
  /\ lastCall.op = "make_tensor" /\ ~reader.ngram.isNone
  /\ lastCall.raised = "ValueError" /\ lastCall.arg = "np.uint64"
  /\ reader.schema[1].numpy_dtype = "np.uint16"

=============================================================================
